---- MODULE Spec2Model ----
(***************************************************************************)
(* A model of http-server.py: a single-threaded HTTP server that answers   *)
(* GET requests with files and directory listings under ROOT_DIR.          *)
(*                                                                         *)
(* Byte strings are sequences of chunks.  A chunk [text |-> s, rep |-> n]  *)
(* stands for the bytes of s repeated n times, so that a file of           *)
(* PACKET_SIZE bytes is one chunk.  The code only ever concatenates byte   *)
(* strings, measures them and tests them for emptiness.                    *)
(***************************************************************************)
EXTENDS Integers, Sequences, FiniteSets, TLC

VARIABLES
    pc,                 \* position of the single thread of control
    argc,               \* len(sys.argv)
    listener,           \* the listening socket s: "none", "listening", "closed"
    fs,                 \* the filesystem: path -> node
    conns,              \* one record per accepted connection, in accept order
    client,             \* the local `client`: 0 is None, else an index of conns
    data,               \* the local `data`: pieces returned by recv
    request,            \* the local `request`: the decoded text
    request_uri,        \* the local `request_uri`
    request_data,       \* the local `request_data`
    request_mime_type,  \* the local `request_mime_type`
    response,           \* the local `response`
    fault,              \* why the process ended ("" while it runs)
    exit_status         \* the process's exit status (-1 while it runs)

vars == <<pc, argc, listener, fs, conns, client, data, request, request_uri,
          request_data, request_mime_type, response, fault, exit_status>>

locals == <<data, request, request_uri, request_data, request_mime_type, response>>

-----------------------------------------------------------------------------
(* Program constants and bounds *)

PACKET_SIZE == 1024

ROOT_DIR == "public"

\* The number of connections the model lets clients make.
MaxConns == 2

-----------------------------------------------------------------------------
(* Byte strings *)

Chunk(s, n) == [text |-> s, rep |-> n]

\* str.encode(): the bytes of a text.
Encode(s) == <<Chunk(s, 1)>>

RECURSIVE ByteLen(_)
\* len() of a byte string.
ByteLen(b) ==
    IF b = <<>> THEN 0
    ELSE Len(Head(b).text) * Head(b).rep + ByteLen(Tail(b))

\* The truth value of a byte string in `if request_data:`.
Truthy(b) == ByteLen(b) > 0

\* The byte b'\n' repeated n times; every newline of the model is written so.
NL(n) == Chunk("\n", n)

RECURSIVE CountLines(_)
\* The number of newline-terminated lines of a byte string.
CountLines(b) ==
    IF b = <<>> THEN 0
    ELSE (IF Head(b).text = "\n" THEN Head(b).rep ELSE 0) + CountLines(Tail(b))

-----------------------------------------------------------------------------
(* Python values that are formatted into the Content-Type header *)

None == "None"

\* A str, such as 'text/plain' or ''.
StrValue(s) == [tuple |-> FALSE, type |-> s, encoding |-> None]

\* The pair (type, encoding) that mimetypes.guess_type returns.
TupleValue(t, e) == [tuple |-> TRUE, type |-> t, encoding |-> e]

\* repr() of a str or of None.
Repr(x) == IF x = None THEN "None" ELSE "'" \o x \o "'"

\* What an f-string makes of the value: str() of a str is the str itself,
\* str() of a tuple is "(" repr ", " repr ")".
Format(v) ==
    IF v.tuple THEN "(" \o Repr(v.type) \o ", " \o Repr(v.encoding) \o ")"
    ELSE v.type

-----------------------------------------------------------------------------
(* The filesystem *)

Absent == [kind |-> "absent", data |-> <<>>, entries |-> <<>>, readable |-> FALSE]

FileNode(d, r) == [kind |-> "file", data |-> d, entries |-> <<>>, readable |-> r]

DirNode(e, r) == [kind |-> "dir", data |-> <<>>, entries |-> e, readable |-> r]

\* A tree under ROOT_DIR (and one file beside it), with a big file of `big`
\* bytes and a directory docs holding `docs`.
FileSystem(big, docs) ==
    ( "public" :> DirNode(<<"index.html", "empty.txt", "big.bin", "docs",
                            "emptydir", "secret.txt", "locked">>, TRUE)
   @@ "public/index.html" :> FileNode(Encode("<h1>hi</h1>"), TRUE)
   @@ "public/empty.txt" :> FileNode(<<>>, TRUE)
   @@ "public/big.bin" :> FileNode(<<Chunk("x", big)>>, TRUE)
   @@ "public/docs" :> DirNode(docs, TRUE)
   @@ "public/emptydir" :> DirNode(<<>>, TRUE)
   @@ "public/secret.txt" :> FileNode(Encode("secret"), FALSE)
   @@ "public/locked" :> DirNode(<<"hidden.txt">>, FALSE)
   @@ "public/../outside.txt" :> FileNode(Encode("outside"), TRUE) )

FileSystems ==
    { FileSystem(PACKET_SIZE, <<"a.txt">>),
      FileSystem(PACKET_SIZE + 1, <<"a.txt", "b.txt">>) }

\* The node a path names.
Lookup(path) == IF path \in DOMAIN fs THEN fs[path] ELSE Absent

\* The extension of a path's last component.
Extension(path) ==
    CASE path \in {"public/index.html"} -> ".html"
      [] path \in {"public/empty.txt", "public/secret.txt",
                   "public/../outside.txt"} -> ".txt"
      [] path \in {"public/big.bin"} -> ".bin"
      [] OTHER -> ""

\* mimetypes.guess_type(path): the type is looked up by extension, None when
\* the extension is unknown; none of the model's files is compressed.
guess_type(path) ==
    CASE Extension(path) = ".html" -> TupleValue("text/html", None)
      [] Extension(path) = ".txt" -> TupleValue("text/plain", None)
      [] Extension(path) = ".bin" -> TupleValue("application/octet-stream", None)
      [] OTHER -> TupleValue(None, None)

-----------------------------------------------------------------------------
(* The response builders *)

not_found_page == Encode("<html><h1>Not found!</h1></html>")

\* Line 25 is a plain string literal, not an f-string: the braces and the
\* expression between them go out on the wire as written.
generate_not_found_response ==
    Encode("HTTP/1.1 404 Not Found\r\n")
    \o Encode("Connection: close\r\n")
    \o Encode("Content-Type: text/html\r\n")
    \o Encode("Content-Length: {len(not_found_page)}\r\n\r\n")
    \o not_found_page

generate_ok_response(rd, mt) ==
    Encode("HTTP/1.1 OK 200\r\n")
    \o Encode("Connection: close\r\n")
    \o Encode("Content-Type: " \o Format(mt) \o "\r\n")
    \o Encode("Content-Length: " \o ToString(ByteLen(rd)) \o "\r\n\r\n")
    \o rd

\* Both builders write four header chunks and then the body.
HeaderChunks == 4

\* What a client reads back from a complete response.
StatusLine(r) == r[1].text

ContentTypeLine(r) == r[3].text

ContentLengthLine(r) == r[4].text

Body(r) == SubSeq(r, HeaderChunks + 1, Len(r))

-----------------------------------------------------------------------------
(* The resource resolver *)

RECURSIVE ListFiles(_, _)
\* The loop of lines 59-61 over the rest of `files`: each pass appends one
\* line and sets the MIME type.
ListFiles(files, acc) ==
    IF files = <<>> THEN acc
    ELSE ListFiles(Tail(files),
                   [data |-> acc.data \o Encode(Head(files)) \o <<NL(1)>>,
                    mime |-> StrValue("text/plain")])

\* The paths of the model that lead out of ROOT_DIR through a .. segment.
OutsideRoot(path) == path \in {"public/../outside.txt"}

\* get_request_data with request_data kept from the previous request instead
\* of being set to b'' at line 51.
get_request_data_Accumulating(uri) ==
    LET path == ROOT_DIR \o uri
        node == Lookup(path)
        start == [data |-> request_data, mime |-> StrValue("")]
    IN  IF node.kind = "dir"
        THEN LET headed == [start EXCEPT
                    !.data = @ \o Encode("Contents of " \o path) \o <<NL(2)>>]
             IN  IF node.readable
                 THEN ListFiles(node.entries, headed)
                 ELSE headed
        ELSE IF node.kind = "file" /\ node.readable
             THEN [data |-> start.data \o node.data, mime |-> guess_type(path)]
             ELSE start

\* get_request_data with a containment check: a path that leaves ROOT_DIR is
\* treated as not found.
get_request_data_Contained(uri) ==
    LET path == ROOT_DIR \o uri
        node == IF OutsideRoot(path) THEN Absent ELSE Lookup(path)
        start == [data |-> <<>>, mime |-> StrValue("")]
    IN  IF node.kind = "dir"
        THEN LET headed == [start EXCEPT
                    !.data = @ \o Encode("Contents of " \o path) \o <<NL(2)>>]
             IN  IF node.readable
                 THEN ListFiles(node.entries, headed)
                 ELSE headed
        ELSE IF node.kind = "file" /\ node.readable
             THEN [data |-> start.data \o node.data, mime |-> guess_type(path)]
             ELSE start

\* get_request_data(request_uri): the pair (request_data, request_mime_type).
\* An OSError leaves both as they were when it was raised.
get_request_data(uri) ==
    LET path == ROOT_DIR \o uri
        node == Lookup(path)
        start == [data |-> <<>>, mime |-> StrValue("")]
    IN  IF node.kind = "dir"
        THEN LET headed == [start EXCEPT
                    !.data = @ \o Encode("Contents of " \o path) \o <<NL(2)>>]
             IN  IF node.readable
                 THEN ListFiles(node.entries, headed)
                 ELSE headed                       \* os.listdir raised OSError
        ELSE IF node.kind = "file" /\ node.readable
             THEN [data |-> start.data \o node.data, mime |-> guess_type(path)]
             ELSE start                            \* open raised OSError

-----------------------------------------------------------------------------
(* Requests *)

\* A request is a sequence of pieces of text; " " is the only piece that
\* holds a space.  Invalid stands for bytes that are not valid UTF-8.
Invalid == "<0xFF>"

Version == "HTTP/1.1\r\n\r\n"

Uris == {"/index.html", "/empty.txt", "/big.bin", "/docs", "/emptydir",
         "/secret.txt", "/locked", "/missing", "/../outside.txt"}

\* What one recv may return: nothing (the peer closed), a whole request
\* line, or a request line cut short; with or without undecodable bytes.
\* Every request of the model is shorter than PACKET_SIZE, so recv cuts
\* none of them.
Requests ==
    {<<>>, <<Invalid>>, <<"GET">>, <<"POST">>, <<"GET", " ">>,
     <<"GET", " ", " ", "/index.html">>,
     <<"GET", " ", "/index.html", Invalid>>,
     <<"POST", " ", "/index.html", " ", Version>>,
     <<"GET", " ", "/index.html">>}
    \cup {<<"GET", " ", u, " ", Version>> : u \in Uris}

Decodable(d) == \A i \in 1..Len(d) : d[i] # Invalid

RECURSIVE Split(_)
\* str.split(' '): the maximal space-free runs, empty ones included.
Split(req) ==
    IF req = <<>> THEN <<"">>
    ELSE LET rest == Split(Tail(req))
         IN  IF Head(req) = " "
             THEN <<"">> \o rest
             ELSE <<Head(req) \o Head(rest)>> \o Tail(rest)

\* parse_request_line without the check of the method (lines 81-84 dropped).
parse_request_line_AnyMethod(req) ==
    LET tokens == Split(req)
    IN  IF Len(tokens) < 2
        THEN [outcome |-> "IndexError", uri |-> ""]
        ELSE [outcome |-> "return", uri |-> tokens[2]]

\* parse_request_line with the URI taken (line 86) before the method is
\* checked (lines 81-84).
parse_request_line_UriFirst(req) ==
    LET tokens == Split(req)
    IN  IF Len(tokens) < 2
        THEN [outcome |-> "IndexError", uri |-> ""]
        ELSE IF tokens[1] # "GET"
             THEN [outcome |-> "SystemExit", uri |-> ""]
             ELSE [outcome |-> "return", uri |-> tokens[2]]

\* parse_request_line(request): it returns the URI, or ends the process with
\* sys.exit(1), or raises IndexError.
parse_request_line(req) ==
    LET tokens == Split(req)
    IN  IF tokens[1] # "GET"
        THEN [outcome |-> "SystemExit", uri |-> ""]
        ELSE IF Len(tokens) < 2
             THEN [outcome |-> "IndexError", uri |-> ""]
             ELSE [outcome |-> "return", uri |-> tokens[2]]

-----------------------------------------------------------------------------
(* Connections *)

\* What the model records of an accepted connection: the stages its handling
\* has completed, whether the server has closed it, what recv returned, the
\* number of send calls made on it, the bytes given to send, the number of
\* them send took, and the exception that ended its handling, if any.
NewConn ==
    [phases |-> <<"ACCEPTED">>, open |-> TRUE, data |-> <<>>, sends |-> 0,
     passed |-> <<>>, received |-> 0, ended_by |-> ""]

\* The statements of the try block (lines 107-124), by position.
TryPcs == {"accept", "recv", "decode", "parse", "resolve", "build", "send", "close"}

Terminal == {"stopped", "exited", "crashed"}

\* conns with the connection in hand, if there is one (`client` still names
\* the closed one until line 104 runs again), marked as ended by e.
Ended(e) ==
    IF client = 0 \/ ~conns[client].open
    THEN conns
    ELSE [conns EXCEPT ![client].ended_by = e]

\* Uncaught as it would be were the loop body to swallow every exception and
\* go on with the next connection.
Uncaught_Survives(e, status) ==
    /\ pc' = "loop"
    /\ conns' = Ended(e)
    /\ UNCHANGED <<fault, exit_status>>

\* An exception no handler catches leaves run_server and ends the process;
\* the interpreter then exits with the given status.
Uncaught(e, status) ==
    /\ pc' = "crashed"
    /\ fault' = e
    /\ exit_status' = status
    /\ conns' = Ended(e)

\* The numbers of bytes one socket.send call may take of `total` bytes: all
\* of them, or a proper part (all but the last byte stands for every part).
SendCounts(total) == {n \in {total - 1, total} : n >= 1}

-----------------------------------------------------------------------------
(* The program *)

Init ==
    /\ pc = "main"
    /\ argc \in 1..4
    /\ listener = "none"
    /\ fs \in FileSystems
    /\ conns = <<>>
    /\ client = 0
    /\ data = <<>>
    /\ request = <<>>
    /\ request_uri = ""
    /\ request_data = <<>>
    /\ request_mime_type = StrValue("")
    /\ response = <<>>
    /\ fault = ""
    /\ exit_status = -1

\* Main with the argument count compared with 2 instead of 3.
Main_OffByOne ==
    /\ pc = "main"
    /\ IF argc # 2
       THEN /\ pc' = "exited"
            /\ fault' = "SystemExit"
            /\ exit_status' = 1
       ELSE /\ pc' = "setup"
            /\ UNCHANGED <<fault, exit_status>>
    /\ UNCHANGED <<argc, listener, fs, conns, client, locals>>

\* Lines 132-140: the argument count is checked before anything else.
Main ==
    /\ pc = "main"
    /\ IF argc # 3
       THEN /\ pc' = "exited"
            /\ fault' = "SystemExit"
            /\ exit_status' = 1
       ELSE /\ pc' = "setup"
            /\ UNCHANGED <<fault, exit_status>>
    /\ UNCHANGED <<argc, listener, fs, conns, client, locals>>

\* Lines 97-101: create, bind and listen.
Setup ==
    /\ pc = "setup"
    /\ listener' = "listening"
    /\ pc' = "loop"
    /\ UNCHANGED <<argc, fs, conns, client, locals, fault, exit_status>>

\* Line 104.
LoopTop ==
    /\ pc = "loop"
    /\ client' = 0
    /\ pc' = "accept"
    /\ UNCHANGED <<argc, listener, fs, conns, locals, fault, exit_status>>

\* Line 107: a client connects within the timeout.
Accept ==
    /\ pc = "accept"
    /\ Len(conns) < MaxConns
    /\ conns' = Append(conns, NewConn)
    /\ client' = Len(conns) + 1
    /\ pc' = "recv"
    /\ UNCHANGED <<argc, listener, fs, locals, fault, exit_status>>

\* Lines 99, 107: no client connects within the timeout; accept raises
\* socket.timeout, which `except KeyboardInterrupt` does not catch.
AcceptTimeout ==
    /\ pc = "accept"
    /\ Uncaught("socket.timeout", 1)
    /\ UNCHANGED <<argc, listener, fs, client, locals>>

\* Line 108: one recv returns.
Recv ==
    /\ pc = "recv"
    /\ \E d \in Requests :
         /\ data' = d
         /\ conns' = [conns EXCEPT ![client].data = d]
    /\ pc' = "decode"
    /\ UNCHANGED <<argc, listener, fs, client, request, request_uri,
                   request_data, request_mime_type, response, fault, exit_status>>

\* Line 108: recv raises OSError (the peer reset the connection).
RecvError ==
    /\ pc = "recv"
    /\ Uncaught("ConnectionResetError", 1)
    /\ UNCHANGED <<argc, listener, fs, client, locals>>

\* Line 109.
Decode ==
    /\ pc = "decode"
    /\ IF Decodable(data)
       THEN /\ request' = data
            /\ pc' = "parse"
            /\ UNCHANGED <<conns, fault, exit_status>>
       ELSE /\ Uncaught("UnicodeDecodeError", 1)
            /\ UNCHANGED request
    /\ UNCHANGED <<argc, listener, fs, client, data, request_uri,
                   request_data, request_mime_type, response>>

\* Line 112.
Parse ==
    /\ pc = "parse"
    /\ LET r == parse_request_line(request)
       IN  CASE r.outcome = "return" ->
                  /\ request_uri' = r.uri
                  /\ conns' = [conns EXCEPT ![client].phases = Append(@, "PARSED")]
                  /\ pc' = "resolve"
                  /\ UNCHANGED <<fault, exit_status>>
             [] r.outcome = "SystemExit" ->
                  /\ pc' = "exited"
                  /\ fault' = "SystemExit"
                  /\ exit_status' = 1
                  /\ conns' = Ended("SystemExit")
                  /\ UNCHANGED request_uri
             [] r.outcome = "IndexError" ->
                  /\ Uncaught("IndexError", 1)
                  /\ UNCHANGED request_uri
    /\ UNCHANGED <<argc, listener, fs, client, data, request, request_data,
                   request_mime_type, response>>

\* Line 113.
Resolve ==
    /\ pc = "resolve"
    /\ LET r == get_request_data(request_uri)
       IN  /\ request_data' = r.data
           /\ request_mime_type' = r.mime
    /\ conns' = [conns EXCEPT ![client].phases = Append(@, "RESOLVED")]
    /\ pc' = "build"
    /\ UNCHANGED <<argc, listener, fs, client, data, request, request_uri,
                   response, fault, exit_status>>

\* Lines 116-120.
Build ==
    /\ pc = "build"
    /\ response' = IF Truthy(request_data)
                   THEN generate_ok_response(request_data, request_mime_type)
                   ELSE generate_not_found_response
    /\ pc' = "send"
    /\ UNCHANGED <<argc, listener, fs, conns, client, data, request,
                   request_uri, request_data, request_mime_type, fault, exit_status>>

\* Line 123: one send call, whose return value is dropped.
Send ==
    /\ pc = "send"
    /\ \E n \in SendCounts(ByteLen(response)) :
         conns' = [conns EXCEPT ![client].sends = @ + 1,
                                ![client].passed = response,
                                ![client].received = @ + n,
                                ![client].phases = Append(@, "RESPONDED")]
    /\ pc' = "close"
    /\ UNCHANGED <<argc, listener, fs, client, locals, fault, exit_status>>

\* Line 123: send raises OSError (the peer has gone away).
SendError ==
    /\ pc = "send"
    /\ Uncaught("BrokenPipeError", 1)
    /\ UNCHANGED <<argc, listener, fs, client, locals>>

\* Close without the call of client.close().
Close_Skipped ==
    /\ pc = "close"
    /\ pc' = "loop"
    /\ UNCHANGED <<argc, listener, fs, conns, client, locals, fault, exit_status>>

\* Close with s.close() written for client.close().
Close_Listener ==
    /\ pc = "close"
    /\ listener' = "closed"
    /\ pc' = "loop"
    /\ UNCHANGED <<argc, fs, conns, client, locals, fault, exit_status>>

\* Line 124.
Close ==
    /\ pc = "close"
    /\ conns' = [conns EXCEPT ![client].open = FALSE,
                              ![client].phases = Append(@, "CLOSED")]
    /\ pc' = "loop"
    /\ UNCHANGED <<argc, listener, fs, client, locals, fault, exit_status>>

\* A KeyboardInterrupt raised at any statement of the try block is caught
\* at line 126.
Interrupt ==
    /\ pc \in TryPcs
    /\ pc' = "handler"
    /\ conns' = Ended("KeyboardInterrupt")
    /\ UNCHANGED <<argc, listener, fs, client, locals, fault, exit_status>>

\* Handler without the call of s.close().
Handler_NoClose ==
    /\ pc = "handler"
    /\ pc' = "stopped"
    /\ fault' = "KeyboardInterrupt"
    /\ exit_status' = 0
    /\ UNCHANGED <<argc, listener, fs, conns, client, locals>>

\* Handler with `continue` written for `break`.
Handler_Continue ==
    /\ pc = "handler"
    /\ listener' = "closed"
    /\ pc' = "loop"
    /\ UNCHANGED <<argc, fs, conns, client, locals, fault, exit_status>>

\* Lines 127-129: close the listening socket and leave the loop; run_server
\* returns and the program ends.
Handler ==
    /\ pc = "handler"
    /\ listener' = "closed"
    /\ pc' = "stopped"
    /\ fault' = "KeyboardInterrupt"
    /\ exit_status' = 0
    /\ UNCHANGED <<argc, fs, conns, client, locals>>

\* A KeyboardInterrupt raised outside the try block (before the loop, at
\* line 104, or inside the handler itself) is caught by nothing.
InterruptOutsideTry ==
    /\ pc \in {"setup", "loop", "handler"}
    /\ Uncaught("KeyboardInterrupt", 130)
    /\ UNCHANGED <<argc, listener, fs, client, locals>>

Next ==
    \/ Main
    \/ Setup
    \/ LoopTop
    \/ Accept
    \/ AcceptTimeout
    \/ Recv
    \/ RecvError
    \/ Decode
    \/ Parse
    \/ Resolve
    \/ Build
    \/ Send
    \/ SendError
    \/ Close
    \/ Interrupt
    \/ Handler
    \/ InterruptOutsideTry

Spec == Init /\ [][Next]_vars

-----------------------------------------------------------------------------
(* Vocabulary of the properties *)

ConnIds == 1..Len(conns)

\* The stages of a connection, in order.
Lifecycle == <<"ACCEPTED", "PARSED", "RESOLVED", "RESPONDED", "CLOSED">>

\* Connection i is the one the loop body is working on.
InHand(i) == i = client /\ pc \in TryPcs \ {"accept"}

\* recv has returned on connection i and its text has reached the parser.
ReachedParser(i) ==
    /\ ~(InHand(i) /\ pc \in {"recv", "decode", "parse"})
    /\ conns[i].ended_by \notin {"KeyboardInterrupt", "ConnectionResetError"}
    /\ Decodable(conns[i].data)

\* The request of connection i is a decodable line of at least two tokens
\* whose first is GET.
IsGet(i) ==
    LET tokens == Split(conns[i].data)
    IN  /\ Decodable(conns[i].data)
        /\ tokens[1] = "GET"
        /\ Len(tokens) >= 2

\* The filesystem node a GET request of connection i targets.
Target(i) == Lookup(ROOT_DIR \o Split(conns[i].data)[2])

\* send has been called on connection i.
Answered(i) == conns[i].sends >= 1

OkStatus == "HTTP/1.1 OK 200\r\n"

NotFoundStatus == "HTTP/1.1 404 Not Found\r\n"

LengthLine(n) == "Content-Length: " \o ToString(n) \o "\r\n\r\n"

\* The exceptions that the environment, not the request, brings about.
SocketOrInterrupt == {"KeyboardInterrupt", "ConnectionResetError", "BrokenPipeError"}

IsPrefix(p, q) == Len(p) <= Len(q) /\ SubSeq(q, 1, Len(p)) = p

-----------------------------------------------------------------------------
(* C1 *)

\* C1 as stated: every accepted connection the loop body is done with, whatever
\* the client sent, got exactly one response, was then closed by the server,
\* and went through the five stages in order.  (Connections cut short by a
\* KeyboardInterrupt or a socket error are left out: the statement is about
\* what the client sends.)
C1_EveryConnectionAnswered ==
    \A i \in ConnIds :
        (~InHand(i) /\ conns[i].ended_by \notin SocketOrInterrupt) =>
            /\ conns[i].sends = 1
            /\ ~conns[i].open
            /\ conns[i].phases = Lifecycle

\* C1 (amended): a connection whose request decodes to at least two
\* space-separated tokens, the first being GET, and whose handling no
\* KeyboardInterrupt or socket error cuts short, gets exactly one send call and
\* is then closed by the server, having passed ACCEPTED, PARSED, RESOLVED,
\* RESPONDED, CLOSED in that order.  On every accepted connection the stages
\* reached are a prefix of that order, at most one send call is made, and the
\* server closes the connection only after that send.
C1_GetConnectionAnswered ==
    \A i \in ConnIds :
        /\ IsPrefix(conns[i].phases, Lifecycle)
        /\ conns[i].sends = (IF Len(conns[i].phases) >= 4 THEN 1 ELSE 0)
        /\ conns[i].open = (conns[i].phases # Lifecycle)
        /\ (~InHand(i) /\ conns[i].ended_by \notin SocketOrInterrupt /\ IsGet(i)) =>
               /\ conns[i].sends = 1
               /\ ~conns[i].open
               /\ conns[i].phases = Lifecycle

\* A GET connection that went the whole way, and the loop back at its top.
C1_Witness ==
    \E i \in ConnIds :
        /\ ~InHand(i)
        /\ IsGet(i)
        /\ conns[i].phases = Lifecycle
        /\ pc = "accept"

-----------------------------------------------------------------------------
(* C2 *)

\* C2 as stated: a GET request for an existing (readable) regular file, of
\* any length, is answered with the success response whose Content-Length is
\* the file's length and whose body is the file's bytes.
C2_FileServed ==
    \A i \in ConnIds :
        (Answered(i) /\ IsGet(i) /\ Target(i).kind = "file" /\ Target(i).readable) =>
            /\ StatusLine(conns[i].passed) = OkStatus
            /\ ContentLengthLine(conns[i].passed) = LengthLine(ByteLen(Target(i).data))
            /\ Body(conns[i].passed) = Target(i).data

-----------------------------------------------------------------------------
(* C3 *)

\* C3 as stated: a GET request for a path that does not exist is answered
\* with the 404 response whose body is the fixed page and whose Content-Length
\* value is the number of bytes of that page.
C3_NotFoundLength ==
    \A i \in ConnIds :
        (Answered(i) /\ IsGet(i) /\ Target(i).kind = "absent") =>
            /\ StatusLine(conns[i].passed) = NotFoundStatus
            /\ Body(conns[i].passed) = not_found_page
            /\ ContentLengthLine(conns[i].passed) = LengthLine(ByteLen(not_found_page))

-----------------------------------------------------------------------------
(* C4 *)

\* C4: once the parser has been given a request whose first space-separated
\* token is not GET, the process has ended by sys.exit with status 1, nothing
\* was sent on that connection, and that connection is the last one accepted.
C4_NonGetExits ==
    \A i \in ConnIds :
        (ReachedParser(i) /\ Split(conns[i].data)[1] # "GET") =>
            /\ pc = "exited"
            /\ fault = "SystemExit"
            /\ exit_status = 1
            /\ conns[i].sends = 0
            /\ conns[i].received = 0
            /\ i = Len(conns)

\* The server has answered one connection and then exited on a POST.
C4_Witness ==
    /\ pc = "exited"
    /\ Len(conns) = 2
    /\ conns[1].phases = Lifecycle
    /\ Split(conns[2].data)[1] = "POST"
    /\ conns[2].ended_by = "SystemExit"

-----------------------------------------------------------------------------
(* C5 *)

\* The filesystem access of a GET request of connection i raises OSError: the
\* file is missing or may not be opened, or the directory may not be listed.
AccessError(i) ==
    \/ Target(i).kind = "absent"
    \/ Target(i).kind \in {"file", "dir"} /\ ~Target(i).readable

\* C5 as stated: the response sent to a GET request whose filesystem access
\* fails is the 404 response.
C5_AccessErrorIs404 ==
    \A i \in ConnIds :
        (Answered(i) /\ IsGet(i) /\ AccessError(i)) =>
            /\ StatusLine(conns[i].passed) = NotFoundStatus
            /\ Body(conns[i].passed) = not_found_page

-----------------------------------------------------------------------------
(* C6 *)

RequestFaults == {"IndexError", "UnicodeDecodeError"}

\* C6 as stated: when an uncaught fault has ended the handling of a
\* connection, the accept loop is still running.
C6_LoopSurvivesFault ==
    \A i \in ConnIds :
        conns[i].ended_by \in RequestFaults => pc \notin Terminal

\* C6 (amended): an uncaught fault while handling a connection (a request line
\* that is the lone token GET, request bytes that cannot be decoded) ends
\* run_server and the whole process, because the try block catches only
\* KeyboardInterrupt: nothing is sent on that connection, the server code
\* closes neither it nor the listening socket, and no later connection is
\* accepted.
C6_FaultEndsProcess ==
    \A i \in ConnIds :
        conns[i].ended_by \in RequestFaults =>
            /\ pc = "crashed"
            /\ fault = conns[i].ended_by
            /\ exit_status = 1
            /\ conns[i].sends = 0
            /\ conns[i].open
            /\ listener = "listening"
            /\ i = Len(conns)

\* The second connection sent a lone GET and the process is gone.
C6_Witness ==
    /\ pc = "crashed"
    /\ Len(conns) = 2
    /\ conns[1].phases = Lifecycle
    /\ conns[2].data = <<"GET">>
    /\ conns[2].ended_by = "IndexError"

-----------------------------------------------------------------------------
(* C7 *)

\* C7 as stated: when the timeout of accept has expired, the server is still
\* running.
C7_TimeoutKeepsServing == fault = "socket.timeout" => pc \notin Terminal

-----------------------------------------------------------------------------
(* C8 *)

\* C8 as stated: when run_server has stopped on an interrupt, the listening
\* socket is closed and every accepted connection is closed and answered.
C8_InterruptOnlyInAccept ==
    pc = "stopped" =>
        /\ listener = "closed"
        /\ \A i \in ConnIds : ~conns[i].open /\ Answered(i)

\* C8 (amended): a manual interrupt takes effect at any statement of the try
\* block, also between accepting a connection and closing it.  Whenever
\* run_server has stopped through its KeyboardInterrupt handler, the listening
\* socket has been closed and the loop has ended, and every accepted
\* connection but the one in hand when the interrupt arrived is answered and
\* closed; that one may be left unanswered, and is left open.
C8_InterruptStops ==
    pc = "stopped" =>
        /\ listener = "closed"
        /\ fault = "KeyboardInterrupt"
        /\ exit_status = 0
        /\ \A i \in ConnIds :
               \/ ~conns[i].open /\ conns[i].sends = 1
               \/ /\ i = client
                  /\ conns[i].open
                  /\ conns[i].ended_by = "KeyboardInterrupt"

\* Stopped by an interrupt that arrived before the response was sent.
C8_Witness ==
    /\ pc = "stopped"
    /\ Len(conns) = 2
    /\ conns[1].phases = Lifecycle
    /\ conns[2].phases = <<"ACCEPTED", "PARSED", "RESOLVED">>
    /\ conns[2].open

-----------------------------------------------------------------------------
(* C9 *)

\* C9 as stated: a GET request for a (listable) directory, with any number of
\* entries, is answered with the success response of type text/plain whose
\* body has one line per entry and two more.
C9_DirectoryListing ==
    \A i \in ConnIds :
        (Answered(i) /\ IsGet(i) /\ Target(i).kind = "dir" /\ Target(i).readable) =>
            /\ StatusLine(conns[i].passed) = OkStatus
            /\ ContentTypeLine(conns[i].passed) = "Content-Type: text/plain\r\n"
            /\ CountLines(Body(conns[i].passed)) = Len(Target(i).entries) + 2

-----------------------------------------------------------------------------
(* C10 *)

\* C10 as stated: once the server has sent and closed, the client of a GET
\* request for a file of PACKET_SIZE bytes or more has received every byte of
\* the response.
C10_BigFileInFull ==
    \A i \in ConnIds :
        (/\ IsGet(i)
         /\ conns[i].phases = Lifecycle
         /\ Target(i).kind = "file"
         /\ ByteLen(Target(i).data) >= PACKET_SIZE) =>
            conns[i].received = ByteLen(conns[i].passed)

-----------------------------------------------------------------------------
(* C11 *)

\* The request of connection i has fewer than two space-separated tokens.
FewerThanTwoTokens(i) == Len(Split(conns[i].data)) < 2

\* C11 as stated: every request of fewer than two tokens that the parser is
\* given ends in an IndexError.
C11_ShortRequestIndexError ==
    \A i \in ConnIds :
        (ReachedParser(i) /\ FewerThanTwoTokens(i)) =>
            conns[i].ended_by = "IndexError"

\* C11 (amended): a request of fewer than two space-separated tokens fails
\* with an unhandled IndexError in parse_request_line only when its one token
\* is exactly GET; with any other single token (the empty request included)
\* the method check comes first and the process ends by sys.exit(1).  Either
\* way nothing is sent on the connection.
C11_ShortRequestOutcome ==
    \A i \in ConnIds :
        (ReachedParser(i) /\ FewerThanTwoTokens(i)) =>
            /\ conns[i].sends = 0
            /\ IF Split(conns[i].data)[1] = "GET"
               THEN /\ conns[i].ended_by = "IndexError"
                    /\ pc = "crashed"
                    /\ fault = "IndexError"
               ELSE /\ conns[i].ended_by = "SystemExit"
                    /\ pc = "exited"
                    /\ exit_status = 1

\* The first connection sent the lone token GET and the parser raised.
C11_Witness ==
    /\ Len(conns) = 1
    /\ conns[1].data = <<"GET">>
    /\ conns[1].ended_by = "IndexError"
    /\ fault = "IndexError"

-----------------------------------------------------------------------------
(* C12 *)

\* C12: two answered GET requests that name the same target get the same
\* response bytes, whichever connections came before and whatever else their
\* request lines hold (the filesystem does not change during a run); in
\* particular two identical requests for the same existing file do.  Stated
\* by contraposition: responses that differ answer different targets.
C12_SameRequestSameResponse ==
    \A i, j \in ConnIds :
        (/\ i < j
         /\ Answered(i) /\ Answered(j)
         /\ conns[i].passed # conns[j].passed) =>
            ~(/\ IsGet(i)
              /\ IsGet(j)
              /\ Split(conns[i].data)[2] = Split(conns[j].data)[2])

\* Two identical requests for the same existing file, one after the other,
\* both answered.
C12_Witness ==
    /\ Len(conns) = 2
    /\ conns[1].data = <<"GET", " ", "/index.html", " ", Version>>
    /\ conns[2].data = conns[1].data
    /\ Target(1).kind = "file"
    /\ conns[1].phases = Lifecycle
    /\ Answered(2)

-----------------------------------------------------------------------------
(* C13 *)

OpenConns == {i \in ConnIds : conns[i].open}

\* C13: at most one accepted connection is open at any time, and whenever the
\* server is at accept (or on its way there), every connection accepted so far
\* has been sent its response and closed; an open connection is always the
\* last one accepted.
C13_OneAtATime ==
    /\ Cardinality(OpenConns) <= 1
    /\ \A i \in OpenConns : i = Len(conns)
    /\ pc \in {"loop", "accept"} =>
           \A i \in ConnIds : ~conns[i].open /\ conns[i].sends = 1

\* The second connection is being served and the first is closed.
C13_Witness ==
    /\ Len(conns) = 2
    /\ pc = "recv"
    /\ conns[2].open
    /\ ~conns[1].open
    /\ conns[1].sends = 1

-----------------------------------------------------------------------------
(* C14 *)

\* C14: started with an argument count other than two (len(sys.argv) # 3),
\* the program has, once it has taken its first step, exited with status 1,
\* and no socket was created and no connection accepted.
C14_BadUsageExits ==
    (argc # 3 /\ pc # "main") =>
        /\ pc = "exited"
        /\ fault = "SystemExit"
        /\ exit_status = 1
        /\ listener = "none"
        /\ conns = <<>>

\* Started with three arguments and exited.
C14_Witness ==
    /\ argc = 4
    /\ pc = "exited"
    /\ exit_status = 1

-----------------------------------------------------------------------------
(* C15 *)

\* C15 as stated: the not-found response is built exactly when
\* get_request_data returned empty bytes, the success response otherwise, and
\* get_request_data returns empty bytes exactly when the path does not exist
\* or could not be accessed.
C15_EmptyIffInaccessible ==
    /\ pc = "send" =>
           /\ (StatusLine(response) = NotFoundStatus) = ~Truthy(request_data)
           /\ (StatusLine(response) = OkStatus) = Truthy(request_data)
    /\ pc \in {"build", "send"} =>
           (~Truthy(request_data)) = AccessError(client)

-----------------------------------------------------------------------------
(* C16 *)

\* C16: the target is ROOT_DIR followed by the URI as it came, so a GET request
\* whose URI leaves the root through a .. segment and names an existing
\* (readable, non-empty) file there is answered with the success response
\* whose body is that outside file's bytes.
C16_TraversalServed ==
    \A i \in ConnIds :
        (/\ Answered(i) /\ IsGet(i)
         /\ OutsideRoot(ROOT_DIR \o Split(conns[i].data)[2])
         /\ Target(i).kind = "file"
         /\ Target(i).readable
         /\ Truthy(Target(i).data)) =>
            /\ StatusLine(conns[i].passed) = OkStatus
            /\ ContentLengthLine(conns[i].passed) = LengthLine(ByteLen(Target(i).data))
            /\ Body(conns[i].passed) = Target(i).data

\* A request for /../outside.txt has been answered.
C16_Witness ==
    \E i \in ConnIds :
        /\ Answered(i)
        /\ IsGet(i)
        /\ Split(conns[i].data)[2] = "/../outside.txt"
        /\ Body(conns[i].passed) = Encode("outside")
        /\ conns[i].phases = Lifecycle

-----------------------------------------------------------------------------
(* C17 *)

\* C17 as stated: whenever the loop or the process has ended after the
\* listening socket was created, that socket has been closed and no accepted
\* connection is left unclosed.  (A KeyboardInterrupt that no handler catches
\* and the accept timeout are left out; the statement fails on the other ways
\* of ending already.)
C17_EverythingClosedAtEnd ==
    (/\ pc \in Terminal
     /\ listener # "none"
     /\ fault \notin {"socket.timeout"}
     /\ ~(pc = "crashed" /\ fault = "KeyboardInterrupt")) =>
        /\ listener = "closed"
        /\ \A i \in ConnIds : ~conns[i].open

\* C17 (amended): when run_server has ended through its KeyboardInterrupt
\* handler the listening socket has been closed; on every other way of ending
\* (sys.exit(1), an uncaught exception, the accept timeout among them) the
\* server code has not closed it.  On every way of ending, each accepted
\* connection but the one in hand has been closed by the server, and the one
\* in hand when the loop or the process ended is left unclosed.
C17_ClosedAtEnd ==
    pc \in Terminal =>
        /\ pc = "stopped" => listener = "closed"
        /\ pc \in {"exited", "crashed"} => listener # "closed"
        /\ \A i \in ConnIds :
               conns[i].open = (i = Len(conns) /\ conns[i].ended_by # "")

\* The process has exited on a non-GET request with both sockets unclosed.
C17_Witness ==
    /\ pc = "exited"
    /\ listener = "listening"
    /\ Len(conns) = 2
    /\ ~conns[1].open
    /\ conns[2].open
    /\ conns[2].ended_by = "SystemExit"

====
